---- MODULE Spec2Model ----
(***************************************************************************)
(* State-machine model of the fixed-block archive engine of ArchiveTool    *)
(* (src/Archive.hpp, src/Archive.cpp).                                     *)
(*                                                                         *)
(* The archive file is a sequence of blocks (one element per kBlockSize    *)
(* bytes).  Strings (file names, paths) are sequences of one-character     *)
(* strings so that std::string::find, substr and parent_path are computed  *)
(* rather than assumed.  A size_t holding size_t(-1) is written -1.        *)
(***************************************************************************)
EXTENDS Integers, Sequences, FiniteSets, TLC

\* ------------------------------------------------------------------ bounds
\* Scaled payload capacity of a block (kBlockSize - headerSize in the code).
PayloadCap == 2
\* No operation is taken that would make the archive file or arcNumBlocks
\* exceed this many blocks.
MaxBlocks == 3
\* No more than this many observers are registered with one archive.
MaxObservers == 2

\* ----------------------------------------------------------------- strings
npos == -1

Slash == "/"

RECURSIVE FindFrom(_, _, _)
\* std::string::find(t) on s, searching from 1-based position i.
FindFrom(s, t, i) ==
  IF i + Len(t) - 1 > Len(s) THEN npos
  ELSE IF SubSeq(s, i, i + Len(t) - 1) = t THEN i - 1
  ELSE FindFrom(s, t, i + 1)

Find(s, t) == FindFrom(s, t, 1)

\* std::filesystem::path::parent_path for relative paths: everything before
\* the last separator, empty when there is none.
ParentPath(s) ==
  LET seps == {i \in 1..Len(s) : s[i] = Slash}
  IN  IF seps = {} THEN <<>>
      ELSE LET m == CHOOSE i \in seps : \A j \in seps : j <= i
           IN  SubSeq(s, 1, m - 1)

ArcSuffix == <<".", "a", "r", "c">>

\* The archive names the program is run with.
ArcNames == { <<"t">>, <<"d", Slash, "t">> }

\* Archive::Archive, the path part: append ".arc" when absent.
ArcPathOf(aFullPath) ==
  IF Find(aFullPath, ArcSuffix) = npos THEN aFullPath \o ArcSuffix ELSE aFullPath

\* The name resolution of extract and remove.
FullFilenamePath(aFilename, folder) ==
  IF Find(aFilename, folder) = npos THEN folder \o <<Slash>> \o aFilename
  ELSE aFilename

\* ------------------------------------------------------- files of the host
\* The bytes of Header::blockFileName.
kFileNameSize == 30

\* The user files that exist in the host file system, by name.
FileNames == { <<"a">>, <<"b">>, <<"d", Slash, "a">> }

\* A user file that fills one payload exactly.
ExactName == <<"c">>

\* A user file whose name has as many characters as Header::blockFileName
\* has bytes.
LongName == [j \in 1..kFileNameSize |-> "a"]

\* A user file whose name is long enough for the processor's path splice.
DataName == <<"d", "a", "t", "a">>

\* The user files of the runs that look at sizes and names, at processors,
\* and at observers.
SizeFiles == { ExactName, <<"b">>, LongName }
ProcFiles == { DataName, <<"a">> }
ObsFiles == { <<"a">>, <<"d", Slash, "a">> }

\* Length of each user file: above one payload, zero, one payload, and below
\* one payload.
FileLen(name) ==
  CASE name = <<"a">> -> PayloadCap + 1
    [] name = <<"b">> -> 0
    [] name = ExactName -> PayloadCap
    [] OTHER -> 1

FileTag(name) ==
  CASE name = <<"a">> -> 10
    [] name = <<"b">> -> 20
    [] name = ExactName -> 40
    [] name = LongName -> 50
    [] name = DataName -> 60
    [] OTHER -> 30

\* The bytes of a user file; every byte is non-zero and names its file.
FileBytes(name) == [j \in 1..FileLen(name) |-> FileTag(name) + j]

\* ------------------------------------------------------------------ blocks
nullChar == 0

\* Values an uninitialised payload byte may hold.
GarbageBytes == {0, 9}

Garbage == {[j \in 1..PayloadCap |-> b] : b \in GarbageBytes}

NullData == [j \in 1..PayloadCap |-> nullChar]

\* Header::Header, with the payload left as the caller's stack holds it.
NewBlock(g) ==
  [ blockIndex |-> -1, nextBlockIndex |-> -1, blockDataLen |-> 0,
    isEmpty |-> FALSE, isProcessed |-> FALSE, processorType |-> <<>>,
    blockFileName |-> <<>>, data |-> g ]

\* The block read from a hole of the file: all bytes zero.
ZeroBlock ==
  [ blockIndex |-> 0, nextBlockIndex |-> 0, blockDataLen |-> 0,
    isEmpty |-> FALSE, isProcessed |-> FALSE, processorType |-> <<>>,
    blockFileName |-> <<>>, data |-> NullData ]

ZeroBlocks(n) == [i \in 1..n |-> ZeroBlock]

\* BlockHandler::getAsBlock on the archive stream: a read at or past the end
\* of the file reads nothing and leaves aBlock as it was.
GetAsBlock(aBlock, d, arcPos) ==
  IF arcPos >= 0 /\ arcPos < Len(d) THEN d[arcPos + 1] ELSE aBlock

\* BlockHandler::writeToStream on the archive stream.  A stream opened with
\* std::fstream::app writes at the end of the file whatever seekp said.
WriteToStream(d, aBlock, arcPos, app) ==
  IF app THEN Append(d, aBlock)
  ELSE IF arcPos < Len(d) THEN [d EXCEPT ![arcPos + 1] = aBlock]
  ELSE d \o ZeroBlocks(arcPos - Len(d)) \o <<aBlock>>

\* getStreamNumBlocks for the two stream types.
GetStreamNumBlocksArchive(d) == Len(d) + 1

GetStreamNumBlocksNonArchive(fileLen) == (fileLen \div PayloadCap) + 1

\* BlockHandler::getAsBlock on a plain stream: chunk i of the source, padded
\* with nulls, and the number of bytes read.
ChunkLen(src, i) ==
  LET rest == Len(src) - i * PayloadCap
  IN  IF rest <= 0 THEN 0 ELSE IF rest > PayloadCap THEN PayloadCap ELSE rest

ChunkData(src, i) ==
  [j \in 1..PayloadCap |->
     IF j <= ChunkLen(src, i) THEN src[i * PayloadCap + j] ELSE nullChar]

\* --------------------------------------------------------------------- TOC
\* std::map::insert: an existing key keeps its value.
MapInsert(toc, key, val) ==
  IF key \in DOMAIN toc THEN toc
  ELSE [k \in DOMAIN toc \cup {key} |-> IF k = key THEN val ELSE toc[k]]

MapErase(toc, key) == [k \in DOMAIN toc \ {key} |-> toc[k]]

\* TOC::addBlockMeta
AddBlockMeta(toc, blockFileName, theIndex) == MapInsert(toc, blockFileName, theIndex)

\* TOC::getBlockIndex: std::map::operator[] inserts a missing key with 0.
GetBlockIndexTOC(toc, blockFilePath) == MapInsert(toc, blockFilePath, 0)

GetBlockIndex(toc, blockFilePath) == GetBlockIndexTOC(toc, blockFilePath)[blockFilePath]

EmptyTOC == [k \in {} |-> 0]

\* -------------------------------------------------------------------- list
\* Character codes, for the key order of std::map<std::string, ...>.
CharCode(c) ==
  CASE c = "." -> 46 [] c = Slash -> 47 [] c = "a" -> 97 [] c = "b" -> 98
    [] c = "c" -> 99 [] c = "d" -> 100 [] c = "r" -> 114 [] c = "t" -> 116
    [] OTHER -> 0

RECURSIVE StrLess(_, _)
\* std::less<std::string>
StrLess(s, t) ==
  IF t = <<>> THEN FALSE
  ELSE IF s = <<>> THEN TRUE
  ELSE IF CharCode(Head(s)) # CharCode(Head(t))
         THEN CharCode(Head(s)) < CharCode(Head(t))
  ELSE StrLess(Tail(s), Tail(t))

RECURSIVE SortedKeys(_)
SortedKeys(S) ==
  IF S = {} THEN <<>>
  ELSE LET m == CHOOSE k \in S : \A o \in S \ {k} : StrLess(k, o)
       IN  <<m>> \o SortedKeys(S \ {m})

\* element.first.substr(pos + 1) with pos the size of the parent path;
\* substr throws std::out_of_range when pos + 1 exceeds the size.
SubstrThrows(s) == Len(ParentPath(s)) + 1 > Len(s)

StripParent(s) == SubSeq(s, Len(ParentPath(s)) + 2, Len(s))

ListThrows(toc) == \E k \in DOMAIN toc : SubstrThrows(k)

RECURSIVE ListNameLines(_)
\* The name lines list writes before it reaches the end of the map or throws.
ListNameLines(keys) ==
  IF keys = <<>> THEN <<>>
  ELSE IF SubstrThrows(Head(keys)) THEN <<>>
  ELSE <<StripParent(Head(keys))>> \o ListNameLines(Tail(keys))

\* Everything list writes: the name lines, then the two marker lines.
ListOutput(toc) ==
  IF ListThrows(toc) THEN ListNameLines(SortedKeys(DOMAIN toc))
  ELSE ListNameLines(SortedKeys(DOMAIN toc)) \o << <<"#">>, <<"#">> >>

\* The names list writes, as a set.
ListedNames(toc) ==
  LET lines == ListNameLines(SortedKeys(DOMAIN toc))
  IN  {lines[i] : i \in 1..Len(lines)}

\* ------------------------------------------------------------------- state
VARIABLES
  arcName,        \* the archive name the program was started with
  isOpen,         \* an Archive object exists
  appMode,        \* arcFileStream was opened with std::fstream::app
  arcFolder,      \* Archive::arcFolder
  arcNumBlocks,   \* Archive::arcNumBlocks
  mapTOC,         \* Archive::arcTOC.mapTOC
  disk,           \* the blocks of the archive file
  arcObservers,   \* Archive::arcObservers, in registration order
  revFile,        \* the "_reverse_process" sibling of the extraction path
  last            \* the last operation: its arguments and what it returned

vars == <<arcName, isOpen, appMode, arcFolder, arcNumBlocks, mapTOC, disk,
          arcObservers, revFile, last>>

NoOp == [op |-> "none", name |-> <<>>, status |-> "ok", out |-> <<>>, ret |-> 0,
         first |-> 0, listed |-> {}, notes |-> <<>>, proc |-> FALSE,
         reversed |-> FALSE]

\* The observers the program may register.
Observers == {"o1", "o2"}

\* A file of the host that does not exist.
AbsentFile == [exists |-> FALSE, bytes |-> <<>>]

\* Archive::notifyObservers calling the observers last-registered first.
NotifyObserversReversed(obs, anAction, aName, status) ==
  [i \in 1..Len(obs) |->
     [observer |-> obs[Len(obs) + 1 - i], action |-> anAction, name |-> aName,
      status |-> status]]

\* Archive::notifyObservers: the calls made, one per registration, in order.
NotifyObservers(obs, anAction, aName, status) ==
  [i \in 1..Len(obs) |->
     [observer |-> obs[i], action |-> anAction, name |-> aName, status |-> status]]

Init ==
  /\ arcName \in ArcNames
  /\ isOpen = FALSE
  /\ appMode = FALSE
  /\ arcFolder = <<>>
  /\ arcNumBlocks = 0
  /\ mapTOC = EmptyTOC
  /\ disk = <<>>
  /\ arcObservers = <<>>
  /\ revFile = AbsentFile
  /\ last = NoOp

\* The operation in progress returned: a hung operation never does.
Ready == last.status \notin {"hang", "crash"}

\* ------------------------------------------------------------- open, close
RECURSIVE ReconstructTOC(_, _, _, _)
\* Archive::reconstructTOC
ReconstructTOC(toc, d, i, n) ==
  IF i >= n THEN toc
  ELSE LET aBlock == GetAsBlock(NewBlock(NullData), d, i)
       IN  ReconstructTOC(IF ~aBlock.isEmpty
                            THEN MapInsert(toc, aBlock.blockFileName, aBlock.blockIndex)
                            ELSE toc,
                          d, i + 1, n)

\* arcFileStream.open with the existing content kept whatever the mode.
OpenStreamKept(d, asNew) == d

\* arcFileStream.open: AccessMode::AsNew opens with std::fstream::trunc.
OpenStream(d, asNew) == IF asNew THEN <<>> ELSE d

\* Archive::createArchive
CreateArchive ==
  /\ ~isOpen /\ Ready
  /\ isOpen' = TRUE
  /\ appMode' = FALSE
  /\ disk' = OpenStream(disk, TRUE)
  /\ arcNumBlocks' = 0
  /\ mapTOC' = EmptyTOC
  /\ arcFolder' = ParentPath(ArcPathOf(arcName))
  /\ arcObservers' = <<>>
  /\ last' = [NoOp EXCEPT !.op = "create", !.first = Len(disk)]
  /\ UNCHANGED <<arcName, revFile>>

\* Archive::openArchive
OpenArchive ==
  /\ ~isOpen /\ Ready
  /\ isOpen' = TRUE
  /\ appMode' = TRUE
  /\ arcNumBlocks' = GetStreamNumBlocksArchive(disk) - 1
  /\ mapTOC' = ReconstructTOC(EmptyTOC, disk, 0, GetStreamNumBlocksArchive(disk) - 1)
  /\ arcFolder' = ParentPath(ArcPathOf(arcName))
  /\ arcObservers' = <<>>
  /\ last' = [NoOp EXCEPT !.op = "open"]
  /\ UNCHANGED <<arcName, disk, revFile>>

\* Archive::~Archive.  The object, its TOC and its counter are gone; the
\* file stays.  The names list reported just before are remembered.
CloseArchive ==
  /\ isOpen /\ Ready
  /\ isOpen' = FALSE
  /\ appMode' = FALSE
  /\ arcFolder' = <<>>
  /\ arcNumBlocks' = 0
  /\ mapTOC' = EmptyTOC
  /\ arcObservers' = <<>>
  /\ last' = [NoOp EXCEPT !.op = "close", !.listed = ListedNames(mapTOC),
                          !.status = IF ListThrows(mapTOC) THEN "throws" ELSE "ok"]
  /\ UNCHANGED <<arcName, disk, revFile>>

\* --------------------------------------------------------------- processor
\* Compression::process and Compression::reverseProcess splice a suffix
\* into the path four characters before its end: std::string::insert throws
\* std::out_of_range when the path is shorter than that.
InsertThrows(path) == Len(path) - 4 < 0

\* The first byte of a zlib stream, and the distance by which the abstract
\* coding moves every byte of the input.
ZHeader == 120
ZShift == 100

\* Compression::process: the bytes written to the "_processed" sibling.
Deflate(bytes) == <<ZHeader>> \o [j \in 1..Len(bytes) |-> bytes[j] + ZShift]

\* Whether inflate accepts the bytes as a stream.
Inflatable(z) ==
  /\ z # <<>>
  /\ z[1] = ZHeader
  /\ \A j \in 2..Len(z) : z[j] >= ZShift

\* Compression::reverseProcess: the bytes left in the destination, which is
\* truncated on opening; nothing is written when the source is empty or
\* inflate reports Z_DATA_ERROR.
Inflate(z) ==
  IF Inflatable(z) THEN [j \in 1..(Len(z) - 1) |-> z[j + 1] - ZShift] ELSE <<>>

\* BlockHandler::getProcessorType: the map is keyed by pointer, the header's
\* array is never a key, and operator[] returns ProcessorType{}.
GetProcessorType(processorName) == "Compression"

CompName == <<"c", "o", "m", "p">>

\* ---------------------------------------------------------------- fileName
\* sizeof(Header) less the bytes of its fields: blockFileName is the last
\* field, and these bytes lie between it and Block::data.
HeaderPadding == 3
NulChar == ""

\* Header::blockFileName and the padding behind it after
\* std::strcpy(theBlock.header.blockFileName, aFilename.c_str()).
NameField(aFilename) ==
  [j \in 1..(kFileNameSize + HeaderPadding) |->
     IF j <= Len(aFilename) THEN aFilename[j] ELSE NulChar]

RECURSIVE CString(_, _)
\* std::string(blockFileName): the characters from position j to the first NUL.
CString(buf, j) ==
  IF j > Len(buf) \/ buf[j] = NulChar THEN <<>>
  ELSE <<buf[j]>> \o CString(buf, j + 1)

\* What the strcpy in Archive::add can do: a name of kFileNameSize or more
\* characters overruns the array, which the build either lets through or
\* stops with an abort of the process.
StrcpyOutcomes(aFilename) ==
  IF Len(aFilename) < kFileNameSize THEN {"copied"} ELSE {"overrun", "abort"}

\* --------------------------------------------------------------------- add
RECURSIVE GetEmptyBlocks(_, _, _)
\* BlockHandler::getEmptyBlocks: the blocks below arcNumBlocks that read
\* back with isEmpty set, by increasing position.
GetEmptyBlocks(d, thePos, nb) ==
  IF thePos >= nb THEN <<>>
  ELSE LET aBlock == GetAsBlock(NewBlock(NullData), d, thePos)
       IN  (IF aBlock.isEmpty THEN <<aBlock>> ELSE <<>>)
           \o GetEmptyBlocks(d, thePos + 1, nb)

RECURSIVE AddLoop(_, _, _, _, _, _, _, _, _)
\* The chunk loop of Archive::add.
AddLoop(d, toc, nb, aFilename, src, i, numBlocksNeeded, app, aProcessor) ==
  IF i >= numBlocksNeeded THEN [d |-> d, toc |-> toc, nb |-> nb]
  ELSE LET thePos == nb
           theBlock == [NewBlock(NullData) EXCEPT
                          !.blockIndex = thePos,
                          !.nextBlockIndex = IF i < numBlocksNeeded - 1
                                               THEN thePos + 1 ELSE thePos,
                          !.blockFileName = CString(NameField(aFilename), 1),
                          !.isProcessed = aProcessor,
                          !.processorType = IF aProcessor THEN CompName ELSE <<>>,
                          !.data = ChunkData(src, i),
                          !.blockDataLen = ChunkLen(src, i),
                          !.isEmpty = FALSE]
       IN  AddLoop(WriteToStream(d, theBlock, thePos, app),
                   AddBlockMeta(toc, aFilename, thePos),
                   nb + 1, aFilename, src, i + 1, numBlocksNeeded, app, aProcessor)

\* Archive::add with the presence test left out.
AlreadyPresentUnchecked(toc, aFilename) == FALSE

\* The test that opens Archive::add.
AlreadyPresent(toc, aFilename) == aFilename \in DOMAIN toc

\* Archive::add; aProcessor is FALSE for nullptr and TRUE for a Compression.
Add(aFilename, aProcessor) ==
  /\ isOpen /\ Ready
  /\ IF AlreadyPresent(mapTOC, aFilename)
       THEN /\ last' = [NoOp EXCEPT !.op = "add", !.name = aFilename,
                                    !.proc = aProcessor,
                                    !.status = "fileExists"]
            /\ UNCHANGED <<arcNumBlocks, mapTOC, disk>>
     ELSE IF aProcessor /\ InsertThrows(aFilename)
       THEN /\ last' = [NoOp EXCEPT !.op = "add", !.name = aFilename,
                                    !.proc = aProcessor,
                                    !.status = "throws"]
            /\ UNCHANGED <<arcNumBlocks, mapTOC, disk>>
       ELSE \E outcome \in StrcpyOutcomes(aFilename) :
            LET src == IF aProcessor THEN Deflate(FileBytes(aFilename))
                       ELSE FileBytes(aFilename)
                numBlocksNeeded == GetStreamNumBlocksNonArchive(Len(src))
                \* computed by add and never read by its loop
                emptyBlocks == GetEmptyBlocks(disk, 0, arcNumBlocks)
                r == AddLoop(disk, mapTOC, arcNumBlocks, aFilename, src, 0,
                             numBlocksNeeded, appMode, aProcessor)
            IN  IF outcome = "abort"
                  THEN /\ last' = [NoOp EXCEPT !.op = "add", !.name = aFilename,
                                               !.proc = aProcessor,
                                               !.status = "crash"]
                       /\ UNCHANGED <<arcNumBlocks, mapTOC, disk>>
                  ELSE /\ Len(r.d) <= MaxBlocks /\ r.nb <= MaxBlocks
                       /\ disk' = r.d
                       /\ mapTOC' = r.toc
                       /\ arcNumBlocks' = r.nb
                       /\ last' = [NoOp EXCEPT !.op = "add", !.name = aFilename,
                                      !.proc = aProcessor,
                                      !.first = arcNumBlocks,
                                      !.ret = numBlocksNeeded,
                                      !.notes = NotifyObservers(arcObservers,
                                                  "added", aFilename, TRUE)]
  /\ UNCHANGED <<arcName, isOpen, appMode, arcFolder, arcObservers, revFile>>

\* ----------------------------------------------------------------- extract
RECURSIVE ExtractWalk(_, _, _, _)
\* The chain walk of Archive::extract: the bytes written to the output
\* stream and the isProcessed flag of the block that ends the walk, or
\* "hang" when the walk comes back to a block it already read.
ExtractWalk(d, blockIndex, out, fuel) ==
  LET theBlock == GetAsBlock(NewBlock(NullData), d, blockIndex)
      written == out \o SubSeq(theBlock.data, 1, theBlock.blockDataLen)
  IN  IF theBlock.nextBlockIndex = theBlock.blockIndex
        THEN [status |-> "ok", out |-> written,
              isProcessed |-> theBlock.isProcessed,
              processorType |-> GetProcessorType(theBlock.processorType)]
      ELSE IF fuel = 0 THEN [status |-> "hang", out |-> written,
                             isProcessed |-> FALSE,
                             processorType |-> "Compression"]
      ELSE ExtractWalk(d, theBlock.nextBlockIndex, written, fuel - 1)

\* The path extract is asked to write to.
OutPath == <<"o", ".", "t", "x", "t">>

\* What reverseProcess can do with its source: fopen returns NULL for a
\* missing file and fread is then called on it, which ends the process or
\* reads nothing.
ReverseOutcomes(source) ==
  IF source.exists THEN {"read"} ELSE {"crash", "read"}

\* Archive::extract.  A processed first block sends the payloads to the
\* "_reverse_process" sibling of the output path; a processed last block
\* has reverseProcess rewrite the output path from that sibling.
Extract(aFilename) ==
  /\ isOpen /\ Ready
  /\ LET fullFilenamePath == FullFilenamePath(aFilename, arcFolder)
         blockIndex == GetBlockIndex(mapTOC, fullFilenamePath)
         firstBlock == GetAsBlock(NewBlock(NullData), disk, blockIndex)
         r == ExtractWalk(disk, blockIndex, <<>>, Len(disk) + 1)
         source == IF firstBlock.isProcessed
                     THEN [exists |-> TRUE, bytes |-> r.out] ELSE revFile
     IN  /\ mapTOC' = GetBlockIndexTOC(mapTOC, fullFilenamePath)
         /\ IF firstBlock.isProcessed /\ InsertThrows(OutPath)
              THEN /\ last' = [NoOp EXCEPT !.op = "extract", !.name = aFilename,
                                  !.status = "throws", !.first = blockIndex]
                   /\ UNCHANGED revFile
            ELSE IF r.status = "hang"
              THEN /\ last' = [NoOp EXCEPT !.op = "extract", !.name = aFilename,
                                  !.status = "hang", !.out = r.out,
                                  !.first = blockIndex]
                   /\ UNCHANGED revFile
            ELSE \E outcome \in (IF r.isProcessed THEN ReverseOutcomes(source)
                                 ELSE {"none"}) :
                   /\ revFile' = source
                   /\ last' = [NoOp EXCEPT !.op = "extract", !.name = aFilename,
                        !.first = blockIndex,
                        !.reversed = r.isProcessed,
                        !.status = IF outcome = "crash" THEN "crash" ELSE "ok",
                        !.out = IF r.isProcessed THEN Inflate(source.bytes)
                                ELSE IF firstBlock.isProcessed THEN <<>>
                                ELSE r.out,
                        !.notes = IF outcome = "crash" THEN <<>>
                                  ELSE NotifyObservers(arcObservers,
                                         "extracted", aFilename, TRUE)]
  /\ UNCHANGED <<arcName, isOpen, appMode, arcFolder, arcNumBlocks, disk,
                 arcObservers>>

\* ------------------------------------------------------------------ remove
RECURSIVE RemoveWalk(_, _, _, _, _)
\* The chain walk of Archive::remove.
RemoveWalk(d, blockIndex, g, app, fuel) ==
  LET theBlock == [GetAsBlock(NewBlock(g), d, blockIndex) EXCEPT
                     !.isEmpty = TRUE, !.blockDataLen = 0]
      written == WriteToStream(d, theBlock, blockIndex, app)
  IN  IF theBlock.nextBlockIndex = theBlock.blockIndex
        THEN [status |-> "ok", d |-> written]
      ELSE IF fuel = 0 THEN [status |-> "hang", d |-> written]
      ELSE RemoveWalk(written, theBlock.nextBlockIndex, g, app, fuel - 1)

\* Archive::remove
Remove(aFilename) ==
  /\ isOpen /\ Ready
  /\ \E g \in Garbage :
       LET fullFilenamePath == FullFilenamePath(aFilename, arcFolder)
           blockIndex == GetBlockIndex(mapTOC, fullFilenamePath)
           r == RemoveWalk(disk, blockIndex, g, appMode, Len(disk) + 1)
       IN  /\ Len(r.d) <= MaxBlocks
           /\ disk' = r.d
           /\ mapTOC' = IF r.status = "ok"
                          THEN MapErase(GetBlockIndexTOC(mapTOC, fullFilenamePath),
                                        fullFilenamePath)
                          ELSE GetBlockIndexTOC(mapTOC, fullFilenamePath)
           /\ last' = [NoOp EXCEPT !.op = "remove", !.name = aFilename,
                                   !.status = r.status, !.first = blockIndex,
                                   !.notes = IF r.status = "ok"
                                               THEN NotifyObservers(arcObservers,
                                                      "removed", aFilename, TRUE)
                                               ELSE <<>>]
  /\ UNCHANGED <<arcName, isOpen, appMode, arcFolder, arcNumBlocks, arcObservers,
                 revFile>>

\* -------------------------------------------------------------------- list
\* Archive::list
List ==
  /\ isOpen /\ Ready
  /\ last' = [NoOp EXCEPT !.op = "list",
                          !.status = IF ListThrows(mapTOC) THEN "throws" ELSE "ok",
                          !.out = ListOutput(mapTOC),
                          !.listed = ListedNames(mapTOC),
                          !.ret = Cardinality(DOMAIN mapTOC),
                          !.notes = IF ListThrows(mapTOC) THEN <<>>
                                    ELSE NotifyObservers(arcObservers, "listed",
                                                         <<>>, TRUE)]
  /\ UNCHANGED <<arcName, isOpen, appMode, arcFolder, arcNumBlocks, mapTOC, disk,
                 arcObservers, revFile>>

\* --------------------------------------------------------------- debugDump
RECURSIVE DumpLines(_, _, _)
\* The lines debugDump writes before it reaches numBlocksArc or throws.
DumpLines(d, thePos, numBlocksArc) ==
  IF thePos >= numBlocksArc THEN <<>>
  ELSE LET theBlock == GetAsBlock(NewBlock(NullData), d, thePos)
       IN  IF SubstrThrows(theBlock.blockFileName) THEN <<>>
           ELSE << [blockIndex |-> theBlock.blockIndex,
                    isEmpty |-> theBlock.isEmpty,
                    fileName |-> StripParent(theBlock.blockFileName)] >>
                \o DumpLines(d, thePos + 1, numBlocksArc)

DumpThrows(d) == \E k \in 1..Len(d) : SubstrThrows(d[k].blockFileName)

\* Archive::debugDump
DebugDump ==
  /\ isOpen /\ Ready
  /\ LET numBlocksArc == GetStreamNumBlocksArchive(disk) - 1
     IN  last' = [NoOp EXCEPT !.op = "dump",
                    !.status = IF DumpThrows(disk) THEN "throws" ELSE "ok",
                    !.out = DumpLines(disk, 0, numBlocksArc),
                    !.ret = numBlocksArc,
                    !.notes = IF DumpThrows(disk) THEN <<>>
                              ELSE NotifyObservers(arcObservers, "dumped",
                                                   <<>>, TRUE)]
  /\ UNCHANGED <<arcName, isOpen, appMode, arcFolder, arcNumBlocks, mapTOC, disk,
                 arcObservers, revFile>>

\* ----------------------------------------------------------------- compact
RECURSIVE CompactLoop(_, _, _, _, _, _)
\* The copy loop of Archive::compact.  writeToStream ignores the stream it is
\* given and writes to arcFileStream, so survivors land in the archive file
\* itself, with the header they were read with.
CompactLoop(d, thePos, ix, numBlocksArc, g, app) ==
  IF thePos >= numBlocksArc THEN [d |-> d, ix |-> ix]
  ELSE LET theBlock == GetAsBlock(NewBlock(g), d, thePos)
       IN  IF theBlock.isEmpty
             THEN CompactLoop(d, thePos + 1, ix, numBlocksArc, g, app)
             ELSE CompactLoop(WriteToStream(d, theBlock, ix, app), thePos + 1,
                              ix + 1, numBlocksArc, g, app)

\* Archive::compact.  Every write to arcFileStream is one whole block and has
\* reached the file when newArcFileStream.open(arcPath, trunc) empties it.
Compact ==
  /\ isOpen /\ Ready
  /\ \E g \in Garbage :
       LET numBlocksArc == GetStreamNumBlocksArchive(disk)
           r == CompactLoop(disk, 0, 0, numBlocksArc, g, appMode)
       IN  /\ disk' = <<>>
           /\ last' = [NoOp EXCEPT !.op = "compact", !.ret = r.ix,
                                   !.notes = NotifyObservers(arcObservers,
                                               "compacted", <<>>, TRUE)]
  /\ UNCHANGED <<arcName, isOpen, appMode, arcFolder, arcNumBlocks, mapTOC,
                 arcObservers, revFile>>

\* ------------------------------------------------------------- addObserver
\* Archive::addObserver
AddObserver(anObserver) ==
  /\ isOpen /\ Ready
  /\ Len(arcObservers) < MaxObservers
  /\ arcObservers' = Append(arcObservers, anObserver)
  /\ last' = [NoOp EXCEPT !.op = "addObserver"]
  /\ UNCHANGED <<arcName, isOpen, appMode, arcFolder, arcNumBlocks, mapTOC, disk,
                 revFile>>

Next ==
  \/ CreateArchive
  \/ OpenArchive
  \/ CloseArchive
  \/ \E f \in FileNames : Add(f, FALSE)
  \/ \E f \in FileNames : Extract(f)
  \/ \E f \in FileNames : Remove(f)
  \/ List
  \/ DebugDump
  \/ Compact

Spec == Init /\ [][Next]_vars

\* The program run on files of particular sizes and names.
NextSizes ==
  \/ CreateArchive
  \/ OpenArchive
  \/ CloseArchive
  \/ \E f \in SizeFiles : Add(f, FALSE)
  \/ \E f \in SizeFiles : Extract(f)
  \/ \E f \in SizeFiles : Remove(f)
  \/ List
  \/ DebugDump
  \/ Compact

SpecSizes == Init /\ [][NextSizes]_vars

\* The program run with and without a processor.
NextProc ==
  \/ CreateArchive
  \/ OpenArchive
  \/ CloseArchive
  \/ \E f \in ProcFiles, aProcessor \in BOOLEAN : Add(f, aProcessor)
  \/ \E f \in ProcFiles : Extract(f)
  \/ \E f \in ProcFiles : Remove(f)
  \/ List
  \/ DebugDump
  \/ Compact

SpecProc == Init /\ [][NextProc]_vars

\* The program run with observers registered.
NextObs ==
  \/ CreateArchive
  \/ OpenArchive
  \/ CloseArchive
  \/ \E o \in Observers : AddObserver(o)
  \/ \E f \in ObsFiles : Add(f, FALSE)
  \/ \E f \in ObsFiles : Extract(f)
  \/ \E f \in ObsFiles : Remove(f)
  \/ List
  \/ DebugDump
  \/ Compact

SpecObs == Init /\ [][NextObs]_vars

\* The program run by a caller who extracts only names the TOC holds.
NextChains ==
  \/ CreateArchive
  \/ OpenArchive
  \/ CloseArchive
  \/ \E f \in FileNames : Add(f, FALSE)
  \/ \E f \in FileNames :
       /\ FullFilenamePath(f, arcFolder) \in DOMAIN mapTOC
       /\ Extract(f)
  \/ \E f \in FileNames : Remove(f)
  \/ Compact

SpecChains == Init /\ [][NextChains]_vars

\* ================================================================== claims
NonEmptyPositions(d) == {k \in 1..Len(d) : ~d[k].isEmpty}

\* What extract would write for the TOC entry of key n.
ExtractOf(d, toc, n) == ExtractWalk(d, toc[n], <<>>, Len(d) + 1)

\* C1: in an open archive, extract(f, out) right after a successful add(f)
\* succeeds and writes exactly the bytes of f.
C1_RoundTrip ==
  [][(last.op = "add" /\ last.status = "ok" /\ last'.op = "extract"
        /\ last'.name = last.name)
       => (last'.status = "ok" /\ last'.out = FileBytes(last.name))]_vars

\* C2: open after destruction lists the same set of filenames as list
\* reported just before the destruction.
C2_ReopenSameList ==
  [][(last.op = "close" /\ last'.op = "open")
       => ListedNames(mapTOC') = last.listed]_vars

\* C3: after add(f) then remove(f) the TOC has no entry for f and every block
\* at an index of f's chain is stored with isEmpty = true and dataLen = 0.
C3_AddRemoveTombstones ==
  [][(last.op = "add" /\ last.status = "ok" /\ last'.op = "remove"
        /\ last'.name = last.name)
       => /\ last.name \notin DOMAIN mapTOC'
          /\ \A i \in last.first .. (last.first + last.ret - 1) :
               /\ i < Len(disk')
               /\ disk'[i + 1].isEmpty
               /\ disk'[i + 1].blockDataLen = 0]_vars

\* C4: after compact every stored block carries its position as blockIndex and
\* every file listed before is still listed and extracts to the same bytes.
C4_CompactPreservesChains ==
  [][last'.op = "compact"
       => /\ \A k \in 1..Len(disk') : disk'[k].blockIndex = k - 1
          /\ \A n \in DOMAIN mapTOC :
               /\ n \in DOMAIN mapTOC'
               /\ ExtractOf(disk', mapTOC', n) = ExtractOf(disk, mapTOC, n)]_vars

\* C5: compact returns the number of non-empty blocks the archive held and
\* leaves exactly those blocks, none of them empty.
C5_CompactReturnsSurvivors ==
  [][last'.op = "compact"
       => /\ last'.ret = Cardinality(NonEmptyPositions(disk))
          /\ Len(disk') = Cardinality(NonEmptyPositions(disk))
          /\ NonEmptyPositions(disk') = 1..Len(disk')]_vars

\* C6: compact changes nothing on an archive without empty blocks, and
\* strictly lowers the block count of an archive with one.
C6_CompactIdempotent ==
  [][last'.op = "compact"
       => IF NonEmptyPositions(disk) = 1..Len(disk)
            THEN /\ disk' = disk /\ mapTOC' = mapTOC
                 /\ (last.op = "compact" => last'.ret = last.ret)
            ELSE Len(disk') < Len(disk)]_vars

\* C7: add of a name already in the TOC returns fileExists and changes neither
\* the blocks of the file, nor numBlocks, nor the TOC.
C7_AddExistingUnchanged ==
  [][(last'.op = "add" /\ last'.name \in DOMAIN mapTOC)
       => /\ last'.status = "fileExists"
          /\ UNCHANGED <<disk, arcNumBlocks, mapTOC>>]_vars

\* A second add of a stored file was refused while the archive holds blocks.
C7_Witness ==
  /\ last.op = "add" /\ last.status = "fileExists"
  /\ last.name \in DOMAIN mapTOC /\ Len(disk) > 0

\* C8: extract of a name that resolves to no TOC entry returns fileNotFound.
C8_ExtractUnknownFails ==
  [][(last'.op = "extract"
        /\ FullFilenamePath(last'.name, arcFolder) \notin DOMAIN mapTOC)
       => last'.status = "fileNotFound"]_vars

\* C9: every stored block is the last of its chain or names as successor a
\* stored block with the same fileName and the same isProcessed.
C9_ChainLink ==
  \A k \in 1..Len(disk) :
    \/ disk[k].nextBlockIndex = disk[k].blockIndex
    \/ /\ disk[k].nextBlockIndex >= 0
       /\ disk[k].nextBlockIndex < Len(disk)
       /\ disk[disk[k].nextBlockIndex + 1].blockFileName = disk[k].blockFileName
       /\ disk[disk[k].nextBlockIndex + 1].isProcessed = disk[k].isProcessed

\* C10: the block stored at position k has blockIndex k.
C10_Position == \A k \in 1..Len(disk) : disk[k].blockIndex = k - 1

\* C11: after every operation each TOC entry name -> i refers to a block that
\* exists in the archive file, is not empty and carries fileName = name.
C11_TOCValid ==
  Ready =>
    \A n \in DOMAIN mapTOC :
      /\ mapTOC[n] < Len(disk)
      /\ ~disk[mapTOC[n] + 1].isEmpty
      /\ disk[mapTOC[n] + 1].blockFileName = n

\* The part of a stored name after its last slash.
BaseName(s) ==
  LET slashes == {j \in 1..Len(s) : s[j] = Slash}
  IN  IF slashes = {} THEN s
      ELSE SubSeq(s, (CHOOSE j \in slashes : \A k \in slashes : k <= j) + 1, Len(s))

\* C13: list writes one line per TOC entry holding the entry's basename, then
\* two lines holding only '#', and returns the number of TOC entries.
C13_ListBasenames ==
  [][last'.op = "list"
       => /\ last'.status = "ok"
          /\ last'.listed = {BaseName(n) : n \in DOMAIN mapTOC}
          /\ Len(last'.out) = Cardinality(DOMAIN mapTOC) + 2
          /\ last'.out[Len(last'.out) - 1] = <<"#">>
          /\ last'.out[Len(last'.out)] = <<"#">>
          /\ last'.ret = Cardinality(DOMAIN mapTOC)]_vars

\* ceil(s / c) for naturals.
CeilDiv(s, c) == (s + c - 1) \div c

\* C14: add of a name that does not fit Header::blockFileName with its NUL
\* returns badFilename and leaves the blocks, arcNumBlocks and the TOC as
\* they were.
C14_LongNameRejected ==
  [][(last'.op = "add" /\ Len(last'.name) + 1 > kFileNameSize
        /\ last'.name \notin DOMAIN mapTOC)
       => /\ last'.status = "badFilename"
          /\ UNCHANGED <<disk, arcNumBlocks, mapTOC>>]_vars

\* C15: a successful add of a source of s bytes allocates max(1, ceil(s / c))
\* blocks, c being the payload capacity of a block.
C15_BlockCount ==
  [][(last'.op = "add" /\ last'.status = "ok")
       => arcNumBlocks' - arcNumBlocks =
            IF FileLen(last'.name) = 0 THEN 1
            ELSE CeilDiv(FileLen(last'.name), PayloadCap)]_vars

\* C18: right after create the archive file has no block, arcNumBlocks is 0,
\* the TOC is empty and a list that follows returns 0 entries, whatever the
\* file at the archive path held before.
C18_CreateEmpty ==
  [][/\ last'.op = "create"
          => /\ arcNumBlocks' = 0
             /\ mapTOC' = EmptyTOC
             /\ disk' = <<>>
     /\ (last.op = "create" /\ last'.op = "list")
          => /\ last'.status = "ok"
             /\ last'.ret = 0
             /\ last'.listed = {}]_vars

\* create has just run on a path whose file held blocks.
C18_Witness == last.op = "create" /\ last.first > 0 /\ disk = <<>>

\* C19: a successful add of n chunks stores chunk i at index
\* arcNumBlocks-before + i with that index as blockIndex, the next index (the
\* own index for the last chunk) as nextBlockIndex, the added name, isEmpty
\* false and isProcessed set iff a processor was given; arcNumBlocks grows by
\* n and the TOC maps the name to the index of chunk 0.
C19_ChainLayout ==
  [][(last'.op = "add" /\ last'.status = "ok")
       => LET n == last'.ret
              first == arcNumBlocks
          IN  /\ arcNumBlocks' = arcNumBlocks + n
              /\ last'.name \in DOMAIN mapTOC'
              /\ mapTOC'[last'.name] = first
              /\ \A i \in 0..(n - 1) :
                   /\ first + i < Len(disk')
                   /\ LET b == disk'[first + i + 1]
                      IN  /\ b.blockIndex = first + i
                          /\ b.nextBlockIndex =
                               IF i < n - 1 THEN first + i + 1 ELSE first + i
                          /\ b.blockFileName = last'.name
                          /\ ~b.isEmpty
                          /\ b.isProcessed = last'.proc]_vars

\* C20: add consults the TOC under the same resolved name as extract and
\* remove: an add whose resolved name is present returns fileExists, and a
\* successful add leaves the resolved name in the TOC at the first chunk.
C20_SameNormalization ==
  [][last'.op = "add"
       => LET resolved == FullFilenamePath(last'.name, arcFolder)
          IN  IF resolved \in DOMAIN mapTOC
                THEN last'.status = "fileExists"
                ELSE last'.status = "ok"
                       => /\ resolved \in DOMAIN mapTOC'
                          /\ mapTOC'[resolved] = arcNumBlocks]_vars

\* The ActionType an operation reports to the observers.
ActionOf(op) ==
  CASE op = "add" -> "added"
    [] op = "extract" -> "extracted"
    [] op = "remove" -> "removed"
    [] op = "list" -> "listed"
    [] op = "dump" -> "dumped"
    [] op = "compact" -> "compacted"

\* One call per registration, in registration order.
CallsExpected(obs, op, aName, status) ==
  [i \in 1..Len(obs) |->
     [observer |-> obs[i], action |-> ActionOf(op), name |-> aName,
      status |-> status]]

\* C16: an operation that fails calls every observer with status = false:
\* so does add of a name already in the TOC, and extract of a name that the
\* TOC does not hold.
C16_FailureNotified ==
  [][/\ (last'.op = "add" /\ last'.status = "fileExists")
          => last'.notes = CallsExpected(arcObservers, "add", last'.name, FALSE)
     /\ (last'.op = "extract" /\ last'.status = "ok"
           /\ FullFilenamePath(last'.name, arcFolder) \notin DOMAIN mapTOC)
          => last'.notes = CallsExpected(arcObservers, "extract", last'.name,
                                         FALSE)]_vars

\* C17: a successful add, extract, remove, list, debugDump or compact calls
\* the observers once per registration, in registration order, with the
\* action of the operation, status true, and the caller's file name (add,
\* extract, remove) or the empty string (list, debugDump, compact).
C17_SuccessNotified ==
  [][(last'.op \in {"add", "extract", "remove", "list", "dump", "compact"}
        /\ last'.status = "ok")
       => last'.notes =
            CallsExpected(arcObservers, last'.op,
                          IF last'.op \in {"add", "extract", "remove"}
                            THEN last'.name ELSE <<>>,
                          TRUE)]_vars

\* remove has succeeded with two different observers registered.
C17_Witness ==
  /\ last.op = "remove" /\ last.status = "ok"
  /\ arcObservers = <<"o2", "o1">>
  /\ Len(last.notes) = 2
  /\ last.notes[1].observer = "o2"

\* C12: extract(f, out) right after a successful add(f, comp) succeeds, takes
\* the reverse step, and leaves in out exactly the bytes of f; the chain add
\* stored holds the transformed bytes.
C12_ProcessedRoundTrip ==
  [][/\ (last'.op = "add" /\ last'.status = "ok" /\ last'.proc)
          => /\ ExtractOf(disk', mapTOC', last'.name).status = "ok"
             /\ ExtractOf(disk', mapTOC', last'.name).out
                  = Deflate(FileBytes(last'.name))
     /\ (last.op = "add" /\ last.status = "ok" /\ last.proc
           /\ last'.op = "extract" /\ last'.name = last.name)
          => /\ last'.status = "ok"
             /\ last'.reversed
             /\ last'.out = FileBytes(last.name)]_vars

\* C21: a successful add of n chunks draws on the empty blocks first:
\* arcNumBlocks grows by n less the number of empty blocks, and not at all
\* when there are at least n of them.
C21_EmptyBlockReuse ==
  [][(last'.op = "add" /\ last'.status = "ok")
       => LET pool == Len(GetEmptyBlocks(disk, 0, arcNumBlocks))
              n == last'.ret
          IN  arcNumBlocks' - arcNumBlocks = IF n > pool THEN n - pool ELSE 0]_vars

\* C22: debugDump writes one line per block of the archive file, in position
\* order, holding the block's blockIndex, its isEmpty flag and the basename
\* of its fileName, and returns the number of blocks in the file.
C22_DumpEveryBlock ==
  [][last'.op = "dump"
       => /\ last'.status = "ok"
          /\ last'.ret = Len(disk)
          /\ last'.out = [k \in 1..Len(disk) |->
                            [blockIndex |-> disk[k].blockIndex,
                             isEmpty |-> disk[k].isEmpty,
                             fileName |-> BaseName(disk[k].blockFileName)]]]_vars

\* C23: remove of a name that does not resolve to a TOC entry leaves every
\* block of the archive file and every TOC entry as it was.
C23_RemoveUnknownFrame ==
  [][(last'.op = "remove"
        /\ FullFilenamePath(last'.name, arcFolder) \notin DOMAIN mapTOC)
       => UNCHANGED <<disk, mapTOC>>]_vars

\* C24: extract, list and debugDump leave the TOC, arcNumBlocks and every
\* stored block as they were.
C24_ReadOnlyFrame ==
  [][last'.op \in {"extract", "list", "dump"}
       => UNCHANGED <<mapTOC, arcNumBlocks, disk>>]_vars

\* C25: after every completed operation on an open archive arcNumBlocks is
\* the number of blocks stored in the archive file.
C25_CounterIsFileLength ==
  (isOpen /\ Ready) => arcNumBlocks = Len(disk)

RECURSIVE WalkEnds(_, _, _)
\* The walk from position i stays inside the file, reads no position twice
\* and reaches a block whose nextBlockIndex is its blockIndex.
WalkEnds(d, i, visited) ==
  /\ i >= 0 /\ i < Len(d)
  /\ i \notin visited
  /\ \/ d[i + 1].nextBlockIndex = d[i + 1].blockIndex
     \/ WalkEnds(d, d[i + 1].nextBlockIndex, visited \cup {i})

\* C26: in a state reached by create, open, add, remove and compact, extract
\* and remove of a name the TOC holds return, having read only blocks of the
\* file and none of them twice.
C26_WalksTerminate ==
  [][(last'.op \in {"extract", "remove"}
        /\ FullFilenamePath(last'.name, arcFolder) \in DOMAIN mapTOC)
       => /\ last'.status = "ok"
          /\ WalkEnds(disk, mapTOC[FullFilenamePath(last'.name, arcFolder)],
                      {})]_vars
====
